---- MODULE Spec2Model ----
(***************************************************************************)
(* Peerset of the litep2p notification shim                                *)
(* (substrate/client/network/src/litep2p/shim/notification/peerset.rs).    *)
(*                                                                         *)
(* The state is the Peerset struct.  Every public entry point              *)
(* (report_substream_opened, report_substream_closed,                      *)
(* report_inbound_substream, report_substream_open_failure,                *)
(* report_substream_rejected) and Stream::poll_next is one action.  The    *)
(* environment (command producers, the two kinds of timers, the peerstore) *)
(* has its own actions.  `last` records what the last call observed and    *)
(* returned: it is the only way a caller sees a return value, a yielded    *)
(* notification command, a log diagnostic or a peerstore call.             *)
(***************************************************************************)
EXTENDS Integers, Sequences, FiniteSets, TLC

\* Peer identifiers (opaque in the source), in the order a HashMap or HashSet of
\* them is iterated.
PeerOrder == <<"A", "B">>

PeerId == {PeerOrder[i] : i \in 1..Len(PeerOrder)}

\* max_in and max_out handed to Peerset::new.
MaxIn == 1

MaxOut == 1

DISCONNECT_ADJUSTMENT == -256

OPEN_FAILURE_ADJUSTMENT == -1024

VARIABLES
    max_out,                \* Peerset::max_out
    num_out,                \* Peerset::num_out
    max_in,                 \* Peerset::max_in
    num_in,                 \* Peerset::num_in
    reserved_only,          \* Peerset::reserved_only
    reserved_peers,         \* Peerset::reserved_peers (HashSet)
    peers,                  \* Peerset::peers (HashMap: a function on the known peers)
    connected_peers,        \* Peerset::connected_peers (shared gauge)
    pending_backoffs,       \* Peerset::pending_backoffs, each with its Delay's readiness
    next_slot_allocation,   \* Peerset::next_slot_allocation: TRUE when the Delay has elapsed
    cmd_rx,                 \* Peerset::cmd_rx: the queued commands
    panicked,               \* a panic!() unwound the driving task
    debug_assertions,       \* cfg!(debug_assertions) of the build
    last                    \* what the last call did, as its caller observes it

vars == <<max_out, num_out, max_in, num_in, reserved_only, reserved_peers, peers,
          connected_peers, pending_backoffs, next_slot_allocation, cmd_rx,
          panicked, debug_assertions, last>>

----------------------------------------------------------------------------
\* Reserved, Direction, PeerState

Yes == "Yes"

No == "No"

Reserved == {Yes, No}

\* impl From<bool> for Reserved
ReservedFrom(value) == IF value THEN Yes ELSE No

Inbound(r) == [way |-> "Inbound", reserved |-> r]

Outbound(r) == [way |-> "Outbound", reserved |-> r]

\* traits::Direction, the argument of report_substream_opened
TraitsDirection == {"Inbound", "Outbound"}

Direction == {Inbound(r) : r \in Reserved} \cup {Outbound(r) : r \in Reserved}

Disconnected == [kind |-> "Disconnected"]

Backoff == [kind |-> "Backoff"]

Opening(d) == [kind |-> "Opening", direction |-> d]

Connected(d) == [kind |-> "Connected", direction |-> d]

Canceled(d) == [kind |-> "Canceled", direction |-> d]

Closing(d) == [kind |-> "Closing", direction |-> d]

PeerState ==
    {Disconnected, Backoff}
        \cup {Opening(d) : d \in Direction} \cup {Connected(d) : d \in Direction}
        \cup {Canceled(d) : d \in Direction} \cup {Closing(d) : d \in Direction}

\* HashMap::get returning None
NoEntry == [kind |-> "NoEntry"]

Get(map, peer) == IF peer \in DOMAIN map THEN map[peer] ELSE NoEntry

\* HashMap::insert
Insert(map, peer, state) ==
    [q \in (DOMAIN map) \cup {peer} |-> IF q = peer THEN state ELSE map[q]]

\* A Vec holding the elements of a set once each (iteration of a HashMap / HashSet).
SetToVec(S) == SelectSeq(PeerOrder, LAMBDA peer : peer \in S)

Range(vec) == {vec[i] : i \in 1..Len(vec)}

\* The vectors of distinct peers.
PeerVecs ==
    {vec \in UNION {[1..n -> PeerId] : n \in 0..Cardinality(PeerId)} :
        \A i, j \in 1..Len(vec) : i # j => vec[i] # vec[j]}

----------------------------------------------------------------------------
\* Commands

SetReservedPeers(ps) == [cmd |-> "SetReservedPeers", peers |-> ps]

AddReservedPeers(ps) == [cmd |-> "AddReservedPeers", peers |-> ps]

RemoveReservedPeers(ps) == [cmd |-> "RemoveReservedPeers", peers |-> ps]

SetReservedOnly(b) == [cmd |-> "SetReservedOnly", reserved_only |-> b]

DisconnectPeer(p) == [cmd |-> "DisconnectPeer", peer |-> p]

GetReservedPeers == [cmd |-> "GetReservedPeers"]

PeersetCommand ==
    {SetReservedPeers(ps) : ps \in SUBSET PeerId}
        \cup {AddReservedPeers(ps) : ps \in SUBSET PeerId}
        \cup {RemoveReservedPeers(ps) : ps \in SUBSET PeerId}
        \cup {SetReservedOnly(b) : b \in BOOLEAN}
        \cup {DisconnectPeer(p) : p \in PeerId}
        \cup {GetReservedPeers}

\* PeersetNotificationCommand, and "nothing yielded"
OpenSubstream(vec) == [cmd |-> "OpenSubstream", peers |-> vec]

CloseSubstream(vec) == [cmd |-> "CloseSubstream", peers |-> vec]

NoCommand == [cmd |-> "None"]

----------------------------------------------------------------------------
\* What a call leaves for its caller to observe.

\* An ingress call: the peer, its entry when the call began, the returned value
\* ("Accept" / "Reject" for validation, "true" / "false" for opened, "unit", or
\* "panic"), and the diagnostic logged ("none", "underflow", "invalid_state").
Ingress(op, peer, prev, result, diag) ==
    [op |-> op, peer |-> peer, prev |-> prev, result |-> result, diag |-> diag]

\* One poll_next: the command it took from cmd_rx (NoCommand when the queue was
\* empty), the item it yielded (NoCommand for Poll::Pending), the report_peer calls
\* it made, whether the allocation branch ran, the peers is_peer_banned reported
\* banned, the limit it passed to next_outbound_peers (-1 when it did not ask) and
\* the reply sent through a GetReservedPeers port ({"none"} when none was sent).
Polled(action, out, reports, allocated, banned, asked, reply) ==
    [op |-> "poll_next", action |-> action, out |-> out, reports |-> reports,
     allocated |-> allocated, banned |-> banned, asked |-> asked, reply |-> reply]

\* A step of the environment.
Env(op) == [op |-> op]

----------------------------------------------------------------------------
\* Construction

\* Peerset::new, for every configuration within the bounds.  The gauge handle
\* starts at zero.
Constructed ==
    /\ max_out = MaxOut
    /\ max_in = MaxIn
    /\ reserved_only \in BOOLEAN
    /\ reserved_peers \in SUBSET PeerId
    /\ num_out = 0
    /\ num_in = 0
    /\ peers = [peer \in reserved_peers |-> Disconnected]
    /\ connected_peers = 0
    /\ pending_backoffs = <<>>
    /\ next_slot_allocation = FALSE
    /\ panicked = FALSE
    /\ debug_assertions \in BOOLEAN
    /\ last = Env("new")

\* The Peerset and the sending half of its channel, nothing sent yet.
Init == Constructed /\ cmd_rx = <<>>

----------------------------------------------------------------------------
\* Event ingress

\* A release that forgets the decrement.
adjust_or_warn_keep(slot) == [slot |-> slot, diag |-> "none"]

\* adjust_or_warn!: checked_sub(1); on None the slot is left alone and a warning
\* is logged.
adjust_or_warn(slot) ==
    IF slot >= 1 THEN [slot |-> slot - 1, diag |-> "none"]
    ELSE [slot |-> slot, diag |-> "underflow"]

\* A back-off that charges every peer the adjustment of a disconnect.
BackoffEntry_flat(peer, reputation) ==
    [peer |-> peer, reputation |-> DISCONNECT_ADJUSTMENT, ready |-> FALSE]

\* A back-off future; its Delay has not elapsed yet.
BackoffEntry(peer, reputation) ==
    [peer |-> peer, reputation |-> reputation, ready |-> FALSE]

PeerIndex(peer) == CHOOSE i \in 1..Len(PeerOrder) : PeerOrder[i] = peer

\* FuturesUnordered::push.  The collection is unordered: it is kept as the vector
\* of its futures grouped by peer, in PeerOrder.
RECURSIVE PushBackoff(_, _)
PushBackoff(backoffs, entry) ==
    IF backoffs = <<>> THEN <<entry>>
    ELSE IF PeerIndex(Head(backoffs).peer) > PeerIndex(entry.peer)
    THEN <<entry>> \o backoffs
    ELSE <<Head(backoffs)>> \o PushBackoff(Tail(backoffs), entry)

\* debug_assert!(false) after a warning: a build with debug assertions panics
\* there, before anything else is written; any other build goes on.
DebugAssertFails(diag) == debug_assertions /\ diag \in {"underflow", "invalid_state"}

\* The direction report_substream_opened was called with, as the caller sees it
\* next to the result, and the slot counters the caller reads just before the
\* call (Peerset::num_in(), Peerset::num_out()).
Opened(ingress, direction) ==
    ingress @@ [direction |-> direction, num_in |-> num_in, num_out |-> num_out]

\* What the caller of report_substream_closed holds when it closes the substream
\* it has just reported open: the counters it read before the open, else nothing.
Closed(ingress) ==
    ingress @@ [pre_open |->
                    IF last.op = "report_substream_opened" /\ last.peer = ingress.peer
                    THEN <<[num_in |-> last.num_in, num_out |-> last.num_out]>>
                    ELSE <<>>]

\* A transition that takes the direction the transport reported.
OpenedDirection_reported(recorded, direction) ==
    [way |-> direction, reserved |-> recorded.reserved]

\* PeerState::Opening { direction } / PeerState::Canceled { direction }: the
\* pattern binds the recorded direction and shadows the argument.
OpenedDirection(recorded, direction) == recorded

report_substream_opened(peer, direction) ==
    LET state == Get(peers, peer)
        op == "report_substream_opened"
        kept == OpenedDirection(state.direction, direction)
    IN
    /\ IF state = NoEntry
       THEN /\ panicked' = DebugAssertFails("invalid_state")
            /\ last' = Opened(Ingress(op, peer, state,
                                      IF DebugAssertFails("invalid_state")
                                      THEN "panic" ELSE "false",
                                      "invalid_state"),
                               direction)
            /\ UNCHANGED <<peers, connected_peers>>
       ELSE IF state.kind = "Opening"
       THEN /\ peers' = Insert(peers, peer, Connected(kept))
            /\ connected_peers' = connected_peers + 1
            /\ last' = Opened(Ingress(op, peer, state, "true", "none"), direction)
            /\ UNCHANGED panicked
       ELSE IF state.kind = "Canceled"
       THEN /\ connected_peers' = connected_peers + 1
            /\ peers' = Insert(peers, peer, Closing(kept))
            /\ last' = Opened(Ingress(op, peer, state, "false", "none"), direction)
            /\ UNCHANGED panicked
       ELSE /\ panicked' = TRUE
            /\ last' = Opened(Ingress(op, peer, state, "panic", "none"), direction)
            /\ UNCHANGED <<peers, connected_peers>>
    /\ UNCHANGED <<debug_assertions, max_out, num_out, max_in, num_in, reserved_only,
                   reserved_peers, pending_backoffs, next_slot_allocation, cmd_rx>>

\* The gauge is an AtomicUsize: fetch_sub on zero wraps.  The value is kept as the
\* signed representative of the residue, so -1 stands for usize::MAX.
report_substream_closed(peer) ==
    LET state == Get(peers, peer)
        op == "report_substream_closed"
        released_in == state \in {Connected(Inbound(No)), Closing(Inbound(No))}
        released_out == state \in {Connected(Outbound(No)), Closing(Outbound(No))}
        adj == IF state = NoEntry THEN [slot |-> 0, diag |-> "invalid_state"]
               ELSE IF released_in THEN adjust_or_warn(num_in)
               ELSE IF released_out THEN adjust_or_warn(num_out)
               ELSE IF state.kind \in {"Closing", "Connected"}
               THEN [slot |-> 0, diag |-> "none"]
               ELSE [slot |-> 0, diag |-> "invalid_state"]
    IN
    /\ IF DebugAssertFails(adj.diag)
       THEN /\ panicked' = TRUE
            /\ last' = Closed(Ingress(op, peer, state, "panic", adj.diag))
            /\ UNCHANGED <<peers, num_in, num_out, connected_peers, pending_backoffs>>
       ELSE IF state = NoEntry
       THEN /\ last' = Closed(Ingress(op, peer, state, "unit", adj.diag))
            /\ UNCHANGED <<peers, num_in, num_out, connected_peers, pending_backoffs,
                           panicked>>
       ELSE /\ num_in' = IF released_in THEN adj.slot ELSE num_in
            /\ num_out' = IF released_out THEN adj.slot ELSE num_out
            /\ peers' = Insert(peers, peer, Backoff)
            /\ connected_peers' = connected_peers - 1
            /\ pending_backoffs' =
                   PushBackoff(pending_backoffs,
                               BackoffEntry(peer, DISCONNECT_ADJUSTMENT))
            /\ last' = Closed(Ingress(op, peer, state, "unit", adj.diag))
            /\ UNCHANGED panicked
    /\ UNCHANGED <<debug_assertions, max_out, max_in, reserved_only, reserved_peers,
                   next_slot_allocation, cmd_rx>>

\* A slot allocation without the reserved accept: reserved peers are charged.
InboundSlotAllocation_charged(peer, reserved_peer, prev, diag) ==
    IF num_in < max_in
    THEN /\ num_in' = num_in + 1
         /\ peers' = Insert(peers, peer, Opening(Inbound(ReservedFrom(reserved_peer))))
         /\ last' = Ingress("report_inbound_substream", peer, prev, "Accept", diag)
    ELSE /\ peers' = Insert(peers, peer, Disconnected)
         /\ last' = Ingress("report_inbound_substream", peer, prev, "Reject", diag)
         /\ UNCHANGED num_in

\* A slot allocation whose slot check is off by one.
InboundSlotAllocation_le(peer, reserved_peer, prev, diag) ==
    IF reserved_peer
    THEN /\ peers' = Insert(peers, peer, Opening(Inbound(ReservedFrom(reserved_peer))))
         /\ last' = Ingress("report_inbound_substream", peer, prev, "Accept", diag)
         /\ UNCHANGED num_in
    ELSE IF num_in <= max_in
    THEN /\ num_in' = num_in + 1
         /\ peers' = Insert(peers, peer, Opening(Inbound(ReservedFrom(reserved_peer))))
         /\ last' = Ingress("report_inbound_substream", peer, prev, "Accept", diag)
    ELSE /\ peers' = Insert(peers, peer, Disconnected)
         /\ last' = Ingress("report_inbound_substream", peer, prev, "Reject", diag)
         /\ UNCHANGED num_in

\* The part of report_inbound_substream after the match: the reserved accept and
\* the inbound slot check.
InboundSlotAllocation(peer, reserved_peer, prev, diag) ==
    IF reserved_peer
    THEN /\ peers' = Insert(peers, peer, Opening(Inbound(ReservedFrom(reserved_peer))))
         /\ last' = Ingress("report_inbound_substream", peer, prev, "Accept", diag)
         /\ UNCHANGED num_in
    ELSE IF num_in < max_in
    THEN /\ num_in' = num_in + 1
         /\ peers' = Insert(peers, peer, Opening(Inbound(ReservedFrom(reserved_peer))))
         /\ last' = Ingress("report_inbound_substream", peer, prev, "Accept", diag)
    ELSE /\ peers' = Insert(peers, peer, Disconnected)
         /\ last' = Ingress("report_inbound_substream", peer, prev, "Reject", diag)
         /\ UNCHANGED num_in

\* A match that lets backed-off peers through to the slot allocation.
ProceedsToSlotAllocation_backoff(state) == state \in {Disconnected, Backoff}

\* The arm of the match that falls through to the slot allocation without any
\* adjustment: PeerState::Disconnected => {}.
ProceedsToSlotAllocation(state) == state = Disconnected

report_inbound_substream(peer) ==
    LET prev == Get(peers, peer)
        op == "report_inbound_substream"
        \* self.peers.entry(peer).or_insert(PeerState::Disconnected)
        state == IF prev = NoEntry THEN Disconnected ELSE prev
        reserved_peer == peer \in reserved_peers
        unwind(diag) ==
            /\ panicked' = TRUE
            /\ last' = Ingress(op, peer, prev, "panic", diag)
            /\ UNCHANGED <<peers, num_in, num_out>>
    IN
    /\ IF ProceedsToSlotAllocation(state)
       THEN /\ InboundSlotAllocation(peer, reserved_peer, prev, "none")
            /\ UNCHANGED <<num_out, panicked>>
       ELSE IF state = Backoff
       THEN /\ last' = Ingress(op, peer, prev, "Reject", "none")
            /\ UNCHANGED <<peers, num_in, num_out, panicked>>
       ELSE IF state.kind = "Opening" /\ state.direction.way = "Outbound"
       THEN LET reserved == state.direction.reserved IN
            IF reserved # ReservedFrom(reserved_peer)
            THEN \* panic!("state mismatch")
                 unwind("none")
            ELSE IF reserved = No
            THEN LET adj == adjust_or_warn(num_out) IN
                 IF DebugAssertFails(adj.diag)
                 THEN unwind(adj.diag)
                 ELSE /\ num_out' = adj.slot
                      /\ IF num_in >= max_in
                         THEN /\ peers' = Insert(peers, peer, Disconnected)
                              /\ last' = Ingress(op, peer, prev, "Reject", adj.diag)
                              /\ UNCHANGED num_in
                         ELSE InboundSlotAllocation(peer, reserved_peer, prev, adj.diag)
                      /\ UNCHANGED panicked
            ELSE /\ InboundSlotAllocation(peer, reserved_peer, prev, "none")
                 /\ UNCHANGED <<num_out, panicked>>
       ELSE IF state.kind = "Canceled"
       THEN IF state.direction.way = "Outbound"
            THEN LET adj == IF state.direction.reserved = No
                            THEN adjust_or_warn(num_out)
                            ELSE [slot |-> num_out, diag |-> "none"]
                 IN  IF DebugAssertFails(adj.diag)
                     THEN unwind(adj.diag)
                     ELSE /\ num_out' = adj.slot
                          /\ peers' = Insert(peers, peer, Disconnected)
                          /\ last' = Ingress(op, peer, prev, "Reject", adj.diag)
                          /\ UNCHANGED <<num_in, panicked>>
            ELSE \* panic!("invalid direction for canceled inbound substream")
                 unwind("none")
       ELSE IF DebugAssertFails("invalid_state")
       THEN unwind("invalid_state")
       ELSE /\ last' = Ingress(op, peer, prev, "Reject", "invalid_state")
            /\ UNCHANGED <<peers, num_in, num_out, panicked>>
    /\ UNCHANGED <<debug_assertions, max_out, max_in, reserved_only, reserved_peers,
                   connected_peers, pending_backoffs, next_slot_allocation, cmd_rx>>

report_substream_open_failure(peer) ==
    LET state == Get(peers, peer)
        op == "report_substream_open_failure"
        released_out == state \in {Opening(Outbound(No)), Canceled(Outbound(No))}
        released_in == state \in {Opening(Inbound(No)), Canceled(Inbound(No))}
        adj == IF released_out THEN adjust_or_warn(num_out)
               ELSE IF released_in THEN adjust_or_warn(num_in)
               ELSE [slot |-> 0, diag |-> "none"]
    IN
    /\ IF state.kind \notin {"Opening", "Canceled"}
       THEN /\ panicked' = TRUE
            /\ last' = Ingress(op, peer, state, "panic", "none")
            /\ UNCHANGED <<num_in, num_out, peers, pending_backoffs>>
       ELSE IF DebugAssertFails(adj.diag)
       THEN /\ panicked' = TRUE
            /\ last' = Ingress(op, peer, state, "panic", adj.diag)
            /\ UNCHANGED <<num_in, num_out, peers, pending_backoffs>>
       ELSE /\ num_out' = IF released_out THEN adj.slot ELSE num_out
            /\ num_in' = IF released_in THEN adj.slot ELSE num_in
            /\ peers' = Insert(peers, peer, Backoff)
            /\ pending_backoffs' =
                   PushBackoff(pending_backoffs,
                               BackoffEntry(peer, OPEN_FAILURE_ADJUSTMENT))
            /\ last' = Ingress(op, peer, state, "unit", adj.diag)
            /\ UNCHANGED panicked
    /\ UNCHANGED <<debug_assertions, max_out, max_in, reserved_only, reserved_peers,
                   connected_peers, next_slot_allocation, cmd_rx>>

\* self.peers.remove(&peer) followed by an insert in every Some arm.  When the
\* debug assertion of an arm fails, the entry taken out is dropped with the
\* unwinding task that owns the Peerset: nobody reads the table afterwards, and
\* the panicked state keeps the values the call found.
report_substream_rejected(peer) ==
    LET state == Get(peers, peer)
        op == "report_substream_rejected"
        released_in == state = Opening(Inbound(No))
        released_out == state = Opening(Outbound(No))
        adj == IF state = NoEntry THEN [slot |-> 0, diag |-> "none"]
               ELSE IF state.kind # "Opening"
               THEN [slot |-> 0, diag |-> "invalid_state"]
               ELSE IF released_in THEN adjust_or_warn(num_in)
               ELSE IF released_out THEN adjust_or_warn(num_out)
               ELSE [slot |-> 0, diag |-> "reserved_rejected"]
    IN
    /\ IF DebugAssertFails(adj.diag)
       THEN /\ panicked' = TRUE
            /\ last' = Ingress(op, peer, state, "panic", adj.diag)
            /\ UNCHANGED <<peers, num_in, num_out>>
       ELSE /\ num_in' = IF released_in THEN adj.slot ELSE num_in
            /\ num_out' = IF released_out THEN adj.slot ELSE num_out
            /\ peers' = IF state = NoEntry THEN peers
                        ELSE IF state.kind = "Opening"
                        THEN Insert(peers, peer, Disconnected)
                        ELSE Insert(peers, peer, state)
            /\ last' = Ingress(op, peer, state, "unit", adj.diag)
            /\ UNCHANGED panicked
    /\ UNCHANGED <<debug_assertions, max_out, max_in, reserved_only, reserved_peers,
                   connected_peers, pending_backoffs, next_slot_allocation, cmd_rx>>

----------------------------------------------------------------------------
\* Stream::poll_next

\* A poll_next that leaves the expired back-offs for a later call.
DrainBackoffs_late(map, backoffs) ==
    [peers |-> map, reports |-> <<>>, pending |-> backoffs]

\* while let Poll::Ready(Some((peer, reputation))) = pending_backoffs.poll_next_unpin:
\* every future whose Delay has elapsed completes; the peer is inserted as
\* Disconnected and the reputation is handed to the peerstore.
RECURSIVE DrainBackoffs(_, _)
DrainBackoffs(map, backoffs) ==
    IF backoffs = <<>>
    THEN [peers |-> map, reports |-> <<>>, pending |-> <<>>]
    ELSE LET entry == Head(backoffs) IN
         IF entry.ready
         THEN LET rest == DrainBackoffs(Insert(map, entry.peer, Disconnected),
                                        Tail(backoffs))
              IN  [rest EXCEPT !.reports = <<<<entry.peer, entry.reputation>>>> \o @]
         ELSE LET rest == DrainBackoffs(map, Tail(backoffs))
              IN  [rest EXCEPT !.pending = <<entry>> \o @]

\* The result of servicing one command.
Serviced(map, reserved, only, out, reply) ==
    [peers |-> map, reserved_peers |-> reserved, reserved_only |-> only, out |-> out,
     reply |-> reply]

NoReply == {"none"}

\* A DisconnectPeer that forgets a dial in flight instead of canceling it.
ServiceDisconnectPeer_forget(peer, map, reserved, only) ==
    LET state == Get(map, peer) IN
    IF state = NoEntry
    THEN Serviced(map, reserved, only, NoCommand, NoReply)
    ELSE IF state.kind = "Connected"
    THEN Serviced(Insert(map, peer, Closing(state.direction)), reserved, only,
                  CloseSubstream(<<peer>>), NoReply)
    ELSE IF state.kind = "Opening"
    THEN Serviced(Insert(map, peer, Disconnected), reserved, only, NoCommand, NoReply)
    ELSE Serviced(Insert(map, peer, state), reserved, only, NoCommand, NoReply)

\* A DisconnectPeer that takes the substream for closed as soon as it asks.
ServiceDisconnectPeer_drop(peer, map, reserved, only) ==
    LET state == Get(map, peer) IN
    IF state = NoEntry
    THEN Serviced(map, reserved, only, NoCommand, NoReply)
    ELSE IF state.kind = "Connected"
    THEN Serviced(Insert(map, peer, Disconnected), reserved, only,
                  CloseSubstream(<<peer>>), NoReply)
    ELSE IF state.kind = "Opening"
    THEN Serviced(Insert(map, peer, Canceled(state.direction)), reserved, only,
                  NoCommand, NoReply)
    ELSE Serviced(Insert(map, peer, state), reserved, only, NoCommand, NoReply)

\* A DisconnectPeer that asks again for the close of a substream being closed.
ServiceDisconnectPeer_again(peer, map, reserved, only) ==
    LET state == Get(map, peer) IN
    IF state = NoEntry
    THEN Serviced(map, reserved, only, NoCommand, NoReply)
    ELSE IF state.kind \in {"Connected", "Closing"}
    THEN Serviced(Insert(map, peer, Closing(state.direction)), reserved, only,
                  CloseSubstream(<<peer>>), NoReply)
    ELSE IF state.kind = "Opening"
    THEN Serviced(Insert(map, peer, Canceled(state.direction)), reserved, only,
                  NoCommand, NoReply)
    ELSE Serviced(Insert(map, peer, state), reserved, only, NoCommand, NoReply)

\* PeersetCommand::DisconnectPeer
ServiceDisconnectPeer(peer, map, reserved, only) ==
    LET state == Get(map, peer) IN
    IF state = NoEntry
    THEN Serviced(map, reserved, only, NoCommand, NoReply)
    ELSE IF state.kind = "Connected"
    THEN Serviced(Insert(map, peer, Closing(state.direction)), reserved, only,
                  CloseSubstream(<<peer>>), NoReply)
    ELSE IF state.kind = "Opening"
    THEN Serviced(Insert(map, peer, Canceled(state.direction)), reserved, only,
                  NoCommand, NoReply)
    ELSE Serviced(Insert(map, peer, state), reserved, only, NoCommand, NoReply)

\* A SetReservedPeers that moves the Connected peers it drops to Closing.
ServiceSetReservedPeers_closing(new_peers, map, reserved, only) ==
    IF new_peers # {}
    THEN LET peers_to_disconnect == {peer \in reserved : peer \notin new_peers} IN
         Serviced([peer \in DOMAIN map |->
                      IF peer \in peers_to_disconnect /\ map[peer].kind = "Connected"
                      THEN Closing(map[peer].direction)
                      ELSE map[peer]],
                  new_peers, only,
                  IF peers_to_disconnect # {}
                  THEN CloseSubstream(SetToVec(peers_to_disconnect))
                  ELSE NoCommand,
                  NoReply)
    ELSE Serviced(map, reserved, only, NoCommand, NoReply)

\* A SetReservedPeers without the guard against an empty set.
ServiceSetReservedPeers_wipe(new_peers, map, reserved, only) ==
    LET peers_to_disconnect == {peer \in reserved : peer \notin new_peers} IN
    Serviced(map, new_peers, only,
             IF peers_to_disconnect # {}
             THEN CloseSubstream(SetToVec(peers_to_disconnect))
             ELSE NoCommand,
             NoReply)

\* PeersetCommand::SetReservedPeers
ServiceSetReservedPeers(new_peers, map, reserved, only) ==
    IF new_peers # {}
    THEN LET peers_to_disconnect == {peer \in reserved : peer \notin new_peers} IN
         Serviced(map, new_peers, only,
                  IF peers_to_disconnect # {}
                  THEN CloseSubstream(SetToVec(peers_to_disconnect))
                  ELSE NoCommand,
                  NoReply)
    ELSE Serviced(map, reserved, only, NoCommand, NoReply)

\* An AddReservedPeers that dials every peer it inserts, whatever its state.
ServiceAddReservedPeers_all(new_peers, map, reserved, only) ==
    LET inserted == {peer \in new_peers : peer \notin reserved}
    IN  Serviced([peer \in (DOMAIN map) \cup inserted |->
                     IF peer \in inserted THEN Opening(Outbound(Yes)) ELSE map[peer]],
                 reserved \cup inserted, only, OpenSubstream(SetToVec(inserted)),
                 NoReply)

\* PeersetCommand::AddReservedPeers
ServiceAddReservedPeers(new_peers, map, reserved, only) ==
    LET inserted == {peer \in new_peers : peer \notin reserved}
        opened == {peer \in inserted : Get(map, peer) \in {NoEntry, Disconnected}}
    IN  Serviced([peer \in (DOMAIN map) \cup opened |->
                     IF peer \in opened THEN Opening(Outbound(Yes)) ELSE map[peer]],
                 reserved \cup inserted, only, OpenSubstream(SetToVec(opened)), NoReply)

\* A removal that leaves the Disconnected of its mem::replace behind for a peer
\* whose substream is opening.
RemovedPeerState_replaced(state) ==
    IF state.kind = "Connected" THEN Closing(state.direction)
    ELSE IF state.kind = "Opening" THEN Disconnected
    ELSE state

\* The state RemoveReservedPeers leaves a removed peer in.
RemovedPeerState(state) ==
    IF state.kind = "Connected" THEN Closing(state.direction)
    ELSE IF state.kind = "Opening" THEN Canceled(state.direction)
    ELSE state

\* A removal that takes out of the reserved set only the peers whose substream
\* it closes or cancels.
ServiceRemoveReservedPeers_active(old_peers, map, reserved, only) ==
    LET removed == {peer \in old_peers \cap reserved :
                       Get(map, peer).kind \in {"Connected", "Opening"}}
        closed == {peer \in removed : map[peer].kind = "Connected"}
    IN  Serviced([peer \in DOMAIN map |->
                     IF peer \in removed THEN RemovedPeerState(map[peer])
                     ELSE map[peer]],
                 reserved \ removed, only, CloseSubstream(SetToVec(closed)), NoReply)

\* PeersetCommand::RemoveReservedPeers
ServiceRemoveReservedPeers(old_peers, map, reserved, only) ==
    LET removed == {peer \in old_peers : peer \in reserved}
        known == removed \cap DOMAIN map
        closed == {peer \in known : map[peer].kind = "Connected"}
    IN  Serviced([peer \in DOMAIN map |->
                     IF peer \in known THEN RemovedPeerState(map[peer]) ELSE map[peer]],
                 reserved \ removed, only, CloseSubstream(SetToVec(closed)), NoReply)

\* PeersetCommand::SetReservedOnly
ServiceSetReservedOnly(only, map, reserved) ==
    IF only
    THEN LET peers_to_remove ==
                 {peer \in DOMAIN map :
                     peer \notin reserved /\ map[peer].kind = "Connected"}
         IN  Serviced([peer \in DOMAIN map |->
                          IF map[peer].kind = "Connected"
                          THEN Closing(map[peer].direction)
                          ELSE IF map[peer].kind = "Opening"
                          THEN Canceled(map[peer].direction)
                          ELSE map[peer]],
                      reserved, only, CloseSubstream(SetToVec(peers_to_remove)), NoReply)
    ELSE Serviced(map, reserved, only, NoCommand, NoReply)

\* A GetReservedPeers that replies with the peers of the table.
ServiceGetReservedPeers_known(map, reserved, only) ==
    Serviced(map, reserved, only, NoCommand, DOMAIN map)

\* PeersetCommand::GetReservedPeers
ServiceGetReservedPeers(map, reserved, only) ==
    Serviced(map, reserved, only, NoCommand, reserved)

\* match action { ... }
ServiceCommand(action, map, reserved, only) ==
    CASE action.cmd = "DisconnectPeer" ->
             ServiceDisconnectPeer(action.peer, map, reserved, only)
      [] action.cmd = "SetReservedPeers" ->
             ServiceSetReservedPeers(action.peers, map, reserved, only)
      [] action.cmd = "AddReservedPeers" ->
             ServiceAddReservedPeers(action.peers, map, reserved, only)
      [] action.cmd = "RemoveReservedPeers" ->
             ServiceRemoveReservedPeers(action.peers, map, reserved, only)
      [] action.cmd = "SetReservedOnly" ->
             ServiceSetReservedOnly(action.reserved_only, map, reserved)
      [] action.cmd = "GetReservedPeers" ->
             ServiceGetReservedPeers(map, reserved, only)

\* An allocation branch that dials backed-off reserved peers too.
ReservedToConnect_backoff(map, reserved, banned) ==
    {peer \in DOMAIN map :
        peer \in reserved /\ map[peer] \in {Disconnected, Backoff} /\ peer \notin banned}

\* Reserved peers the allocation branch dials: known, Disconnected and not
\* reported banned by is_peer_banned.
ReservedToConnect(map, reserved, banned) ==
    {peer \in DOMAIN map :
        peer \in reserved /\ map[peer] = Disconnected /\ peer \notin banned}

\* The ignore set handed to next_outbound_peers.
IgnoreSet(map) == {peer \in DOMAIN map : map[peer] # Disconnected}

\* A slot fill that asks for one peer too many.
OutboundLimit_more(out, max, only) == IF out <= max /\ ~only THEN max - out + 1 ELSE -1

\* A slot fill that does not look at the reserved-only mode.
OutboundLimit_any(out, max, only) == IF out < max THEN max - out ELSE -1

\* The limit handed to next_outbound_peers, -1 when the peerstore is not asked.
OutboundLimit(out, max, only) == IF out < max /\ ~only THEN max - out ELSE -1

\* PeerstoreHandle::next_outbound_peers: at most `limit` distinct peers outside
\* `ignore`, in the order the peerstore ranks them.
NextOutboundPeers(ignore, limit) ==
    IF limit < 0 THEN {<<>>}
    ELSE {vec \in PeerVecs : Len(vec) <= limit /\ Range(vec) \cap ignore = {}}

\* An allocation branch that extends its batch with the candidates twice.
SlotAllocation_twice(map, connect_to, out, candidates) ==
    LET chosen == Range(candidates)
    IN  [peers |-> [peer \in (DOMAIN map) \cup chosen |->
                       IF peer \in chosen THEN Opening(Outbound(No))
                       ELSE IF peer \in connect_to THEN Opening(Outbound(Yes))
                       ELSE map[peer]],
         num_out |-> out + Len(candidates),
         connect_to |-> SetToVec(connect_to) \o candidates \o candidates]

\* An allocation branch that dials its candidates without charging them.
SlotAllocation_free(map, connect_to, out, candidates) ==
    LET chosen == Range(candidates)
    IN  [peers |-> [peer \in (DOMAIN map) \cup chosen |->
                       IF peer \in chosen THEN Opening(Outbound(No))
                       ELSE IF peer \in connect_to THEN Opening(Outbound(Yes))
                       ELSE map[peer]],
         num_out |-> out,
         connect_to |-> SetToVec(connect_to) \o candidates]

\* The allocation branch, given the peerstore's answers.
SlotAllocation(map, connect_to, out, candidates) ==
    LET chosen == Range(candidates)
    IN  [peers |-> [peer \in (DOMAIN map) \cup chosen |->
                       IF peer \in chosen THEN Opening(Outbound(No))
                       ELSE IF peer \in connect_to THEN Opening(Outbound(Yes))
                       ELSE map[peer]],
         num_out |-> out + Len(candidates),
         connect_to |-> SetToVec(connect_to) \o candidates]

\* The allocation branch of poll_next, run on the state the command left.
AllocateSlots(action, drained, serviced) ==
    LET asked == {peer \in DOMAIN serviced.peers :
                     /\ peer \in serviced.reserved_peers
                     /\ serviced.peers[peer] = Disconnected}
        limit == OutboundLimit(num_out, max_out, serviced.reserved_only)
    IN  \E banned \in SUBSET asked :
        \E connect_to \in {ReservedToConnect(serviced.peers, serviced.reserved_peers,
                                             banned)} :
        \E candidates \in NextOutboundPeers(IgnoreSet(serviced.peers) \cup connect_to,
                                            limit) :
        \E allocation \in {SlotAllocation(serviced.peers, connect_to, num_out,
                                          candidates)} :
            /\ peers' = allocation.peers
            /\ num_out' = allocation.num_out
            /\ next_slot_allocation' = FALSE
            /\ last' = Polled(action,
                              IF allocation.connect_to # <<>>
                              THEN OpenSubstream(allocation.connect_to)
                              ELSE NoCommand,
                              drained.reports, TRUE, banned, limit, serviced.reply)

\* A poll_next that arms the allocation Delay anew when it returns the output of
\* a command.
PollNext_rearm(queue) ==
    \E action \in {IF queue = <<>> THEN NoCommand ELSE Head(queue)} :
    \E drained \in {DrainBackoffs(peers, pending_backoffs)} :
    \E serviced \in {IF queue = <<>>
                     THEN Serviced(drained.peers, reserved_peers, reserved_only,
                                   NoCommand, NoReply)
                     ELSE ServiceCommand(action, drained.peers, reserved_peers,
                                         reserved_only)} :
        /\ pending_backoffs' = drained.pending
        /\ cmd_rx' = IF queue = <<>> THEN <<>> ELSE Tail(queue)
        /\ reserved_peers' = serviced.reserved_peers
        /\ reserved_only' = serviced.reserved_only
        /\ IF serviced.out = NoCommand /\ next_slot_allocation
           THEN AllocateSlots(action, drained, serviced)
           ELSE /\ peers' = serviced.peers
                /\ last' = Polled(action, serviced.out, drained.reports, FALSE, {}, -1,
                                  serviced.reply)
                /\ next_slot_allocation' = FALSE
                /\ UNCHANGED num_out
        /\ UNCHANGED <<debug_assertions, max_out, max_in, num_in, connected_peers,
                       panicked>>

\* poll_next with `queue` the content of cmd_rx when it is called.
PollNext(queue) ==
    \E action \in {IF queue = <<>> THEN NoCommand ELSE Head(queue)} :
    \E drained \in {DrainBackoffs(peers, pending_backoffs)} :
    \E serviced \in {IF queue = <<>>
                     THEN Serviced(drained.peers, reserved_peers, reserved_only,
                                   NoCommand, NoReply)
                     ELSE ServiceCommand(action, drained.peers, reserved_peers,
                                         reserved_only)} :
        /\ pending_backoffs' = drained.pending
        /\ cmd_rx' = IF queue = <<>> THEN <<>> ELSE Tail(queue)
        /\ reserved_peers' = serviced.reserved_peers
        /\ reserved_only' = serviced.reserved_only
        /\ IF serviced.out = NoCommand /\ next_slot_allocation
           THEN AllocateSlots(action, drained, serviced)
           ELSE /\ peers' = serviced.peers
                /\ last' = Polled(action, serviced.out, drained.reports, FALSE, {}, -1,
                                  serviced.reply)
                /\ UNCHANGED <<num_out, next_slot_allocation>>
        /\ UNCHANGED <<debug_assertions, max_out, max_in, num_in, connected_peers,
                       panicked>>

\* The driving task polls the stream.
poll_next == PollNext(cmd_rx)

----------------------------------------------------------------------------
\* Environment

\* A channel that hands out the newest command first.
send_command_front(action) ==
    /\ cmd_rx' = <<action>> \o cmd_rx
    /\ last' = Env("send_command")
    /\ UNCHANGED <<debug_assertions, max_out, num_out, max_in, num_in, reserved_only,
                   reserved_peers, peers, connected_peers, pending_backoffs,
                   next_slot_allocation, panicked>>

\* A producer deposits a command (TracingUnboundedSender::unbounded_send).
send_command(action) ==
    /\ cmd_rx' = Append(cmd_rx, action)
    /\ last' = Env("send_command")
    /\ UNCHANGED <<debug_assertions, max_out, num_out, max_in, num_in, reserved_only,
                   reserved_peers, peers, connected_peers, pending_backoffs,
                   next_slot_allocation, panicked>>

\* A producer deposits a command into the empty queue and the driving task, woken
\* by the deposit, polls before anything else happens.  A deposit changes cmd_rx
\* alone and no other step than poll_next reads cmd_rx, so every deposit of a run
\* can be moved to just before the poll that takes it out: the runs of the Peerset
\* under command_received are those under send_command with any queue length.
command_received(action) ==
    /\ cmd_rx = <<>>
    /\ PollNext(<<action>>)

\* The Delay of one pending back-off elapses.
backoff_elapsed(i) ==
    /\ ~pending_backoffs[i].ready
    /\ pending_backoffs' = [pending_backoffs EXCEPT ![i].ready = TRUE]
    /\ last' = Env("backoff_elapsed")
    /\ UNCHANGED <<debug_assertions, max_out, num_out, max_in, num_in, reserved_only,
                   reserved_peers, peers, connected_peers, next_slot_allocation, cmd_rx,
                   panicked>>

\* SLOT_ALLOCATION_FREQUENCY has passed since the allocation Delay was armed.
slot_allocation_elapsed ==
    /\ ~next_slot_allocation
    /\ next_slot_allocation' = TRUE
    /\ last' = Env("slot_allocation_elapsed")
    /\ UNCHANGED <<debug_assertions, max_out, num_out, max_in, num_in, reserved_only,
                   reserved_peers, peers, connected_peers, pending_backoffs, cmd_rx,
                   panicked>>

\* The transport reports an opened substream, or an open failure, only for a
\* substream the Peerset knows to be opening, and a closed one only for a substream
\* it knows to be open.
TransportOpening(peer) == Get(peers, peer).kind \in {"Opening", "Canceled"}

TransportOpen(peer) == Get(peers, peer).kind \in {"Connected", "Closing"}

----------------------------------------------------------------------------
\* The Peerset driven by its task, the transport and the producers.

\* The transport reports an opened substream.
substream_opened ==
    \E peer \in PeerId :
        \E direction \in TraitsDirection :
            /\ ~panicked
            /\ TransportOpening(peer)
            /\ report_substream_opened(peer, direction)

\* The transport reports a closed substream.
substream_closed ==
    \E peer \in PeerId :
        ~panicked /\ TransportOpen(peer) /\ report_substream_closed(peer)

\* The transport asks for the validation of an inbound substream.
inbound_substream == \E peer \in PeerId : ~panicked /\ report_inbound_substream(peer)

\* The transport reports that a substream failed to open.
substream_open_failure ==
    \E peer \in PeerId :
        ~panicked /\ TransportOpening(peer) /\ report_substream_open_failure(peer)

\* The protocol rejected a substream.
substream_rejected == \E peer \in PeerId : ~panicked /\ report_substream_rejected(peer)

\* The driving task polls the stream with nothing new in the queue.
polled == ~panicked /\ poll_next

\* The driving task polls the stream after a deposit.
command == \E action \in PeersetCommand : ~panicked /\ command_received(action)

\* A back-off Delay elapses.
backoff_timer == \E i \in 1..Len(pending_backoffs) : ~panicked /\ backoff_elapsed(i)

\* The allocation Delay elapses.
allocation_timer == ~panicked /\ slot_allocation_elapsed

Next ==
    \/ substream_opened
    \/ substream_closed
    \/ inbound_substream
    \/ substream_open_failure
    \/ substream_rejected
    \/ polled
    \/ command
    \/ backoff_timer
    \/ allocation_timer

Spec == Init /\ [][Next]_vars

\* The Peerset constructed with reserved-only mode off: the mode is then on exactly
\* when the last SetReservedOnly serviced carried true.
InitModeOff == Init /\ ~reserved_only

SpecModeOff == InitModeOff /\ [][Next]_vars

\* A fresh Peerset whose producer has sent AddReservedPeers(S) and then
\* RemoveReservedPeers(S) before the driving task polls for the first time.
InitRoundTrip ==
    /\ Constructed
    /\ cmd_rx \in {<<AddReservedPeers(S), RemoveReservedPeers(S)>> :
                      S \in SUBSET PeerId}

NextRoundTrip == polled \/ allocation_timer

\* The driving task is woken by the queued commands and by the allocation Delay
\* and keeps polling.
SpecRoundTrip ==
    InitRoundTrip /\ [][NextRoundTrip]_vars /\ WF_vars(polled)
        /\ WF_vars(allocation_timer)

\* The commands a producer has queued while the driving task was not polling.
MaxQueue == 2

\* A producer that asks for disconnections, as the peerstore does when it bans a
\* peer on every protocol.
QueuedCommand == {DisconnectPeer(peer) : peer \in PeerId}

\* The producer deposits a command; the driving task polls later.
deposit ==
    \E action \in QueuedCommand :
        ~panicked /\ Len(cmd_rx) < MaxQueue /\ send_command(action)

NextQueue ==
    \/ substream_opened
    \/ substream_closed
    \/ inbound_substream
    \/ substream_open_failure
    \/ substream_rejected
    \/ polled
    \/ deposit
    \/ backoff_timer
    \/ allocation_timer

\* The Peerset with commands waiting in its channel.
SpecQueue == Init /\ [][NextQueue]_vars

\* The back-offs pending when a transport that reports closes on its own account
\* reports another one.
MaxBackoffs == 2

\* A transport that reports a closed substream whatever the Peerset knows about
\* the peer: report_substream_closed has an arm for every state.  The runs are
\* followed until the gauge has wrapped below zero.
substream_closed_unchecked ==
    \E peer \in PeerId :
        /\ ~panicked
        /\ Len(pending_backoffs) < MaxBackoffs
        /\ connected_peers >= 0
        /\ report_substream_closed(peer)

NextLax ==
    \/ substream_opened
    \/ substream_closed_unchecked
    \/ inbound_substream
    \/ substream_open_failure
    \/ substream_rejected
    \/ polled
    \/ backoff_timer
    \/ allocation_timer

\* The Peerset under a transport whose close reports need not match its states.
SpecLax == Init /\ [][NextLax]_vars

\* The driving task keeps polling the stream and every armed Delay elapses.
SpecLive ==
    /\ Init
    /\ [][Next]_vars
    /\ WF_vars(polled)
    /\ WF_vars(allocation_timer)
    /\ WF_vars(backoff_timer)

\* Commands that always yield an item (AddReservedPeers, SetReservedOnly(true)),
\* that yield one in some states (DisconnectPeer) and that never do
\* (GetReservedPeers).
IntakeCommand ==
    {AddReservedPeers({PeerOrder[1]}), DisconnectPeer(PeerOrder[1]),
     SetReservedOnly(TRUE), GetReservedPeers}

\* A producer deposits a command while earlier ones are still queued.
enqueue ==
    \E action \in IntakeCommand :
        ~panicked /\ Len(cmd_rx) < MaxQueue /\ send_command(action)

NextIntake ==
    \/ substream_opened
    \/ polled
    \/ enqueue
    \/ allocation_timer

\* The command intake: producers deposit commands of every kind, the driving task
\* keeps polling, the transport opens the substreams it is asked for.
SpecIntake == Init /\ [][NextIntake]_vars /\ WF_vars(polled)

\* The Delay of the back-off of `peer` elapses.
backoff_timer_of(peer) ==
    \E i \in 1..Len(pending_backoffs) :
        ~panicked /\ pending_backoffs[i].peer = peer /\ backoff_elapsed(i)

\* The driving task polls the stream after the deposit of a DisconnectPeer, the
\* command that ends substreams and dials in flight.
disconnect_requested ==
    \E action \in QueuedCommand : ~panicked /\ command_received(action)

NextBackoff ==
    \/ substream_opened
    \/ substream_closed
    \/ inbound_substream
    \/ substream_open_failure
    \/ substream_rejected
    \/ polled
    \/ disconnect_requested
    \/ backoff_timer
    \/ allocation_timer

\* The driving task keeps polling the stream and the Delay of every back-off
\* elapses, each Delay being a timer of its own.
SpecBackoff ==
    /\ Init
    /\ [][NextBackoff]_vars
    /\ WF_vars(polled)
    /\ \A peer \in PeerId : WF_vars(backoff_timer_of(peer))

----------------------------------------------------------------------------
\* Properties

\* The peers charged to a slot counter: those in Opening, Connected, Canceled or
\* Closing with direction d.
Charged(map, d) ==
    {peer \in DOMAIN map :
        /\ map[peer].kind \in {"Opening", "Connected", "Canceled", "Closing"}
        /\ map[peer].direction = d}

\* C1: in every state (after every ingress event, command and allocator tick)
\* num_in is the number of peers in Opening, Connected, Canceled or Closing with
\* direction Inbound(No) and num_out the number of those with Outbound(No); peers in
\* Disconnected or Backoff, and directions flagged Yes, are counted in neither.
C1_SlotCountersMatchPeers ==
    /\ num_in = Cardinality(Charged(peers, Inbound(No)))
    /\ num_out = Cardinality(Charged(peers, Outbound(No)))

\* One slot of each kind is charged, to a peer whose substream is being closed and
\* to one whose dial was canceled.
C1_Witness ==
    \E p, q \in DOMAIN peers :
        /\ peers[p] = Closing(Inbound(No))
        /\ peers[q] = Canceled(Outbound(No))
        /\ num_in = 1
        /\ num_out = 1

\* C2: num_in <= max_in and num_out <= max_out in every reachable state.
C2_SlotsWithinBudget == num_in <= max_in /\ num_out <= max_out

\* Both budgets are used up right after an allocator tick that dialed a candidate.
C2_Witness ==
    /\ last.op = "poll_next"
    /\ last.allocated
    /\ last.out.cmd = "OpenSubstream"
    /\ max_in > 0
    /\ num_in = max_in
    /\ num_out = max_out

\* C3: every member of the reserved set has an entry in the peer table.
C3_ReservedPeersHaveEntries == reserved_peers \subseteq DOMAIN peers

\* The peer has no substream, neither open nor pending nor backed off.
Idle(peer) == Get(peers, peer).kind \in {"NoEntry", "Disconnected"}

\* The last allocator tick was told by the peerstore that the peer is banned.
ReportedBanned(peer) == last.op = "poll_next" /\ peer \in last.banned

\* C4: a reserved peer that is idle and not banned is eventually dialed, as long
\* as it stays reserved and the stream keeps being polled: it does not stay idle
\* forever unless it leaves the reserved set or the peerstore reports it banned.
C4_ReservedPeerEventuallyDialed ==
    \A peer \in PeerId :
        (peer \in reserved_peers /\ Idle(peer))
            ~> (\/ ~Idle(peer)
                \/ peer \notin reserved_peers
                \/ ReportedBanned(peer)
                \/ panicked)

\* C5: in reserved-only mode report_inbound_substream returns Reject for a peer
\* that is not in the reserved set.
C5_ReservedOnlyRejectsNonReserved ==
    (/\ last.op = "report_inbound_substream"
     /\ reserved_only
     /\ last.peer \notin reserved_peers)
        => last.result = "Reject"

\* C6: while the mode set by SetReservedOnly(true) is on, no peer outside the
\* reserved set is Connected.
C6_NoNonReservedConnected ==
    reserved_only =>
        \A peer \in DOMAIN peers :
            peers[peer].kind = "Connected" => peer \in reserved_peers

\* The step is report_inbound_substream(peer).
InboundStep(peer) ==
    last'.op = "report_inbound_substream" /\ last'.peer = peer

C8_ReservedInboundAccepted ==
    [][\A peer \in PeerId :
           (/\ InboundStep(peer)
            /\ peer \in reserved_peers
            /\ Get(peers, peer) \in {NoEntry, Disconnected, Opening(Outbound(Yes))})
               => /\ last'.result = "Accept"
                  /\ peers'[peer] = Opening(Inbound(Yes))
                  /\ num_in' = num_in
                  /\ num_out' = num_out]_vars

\* A reserved peer we were dialing was accepted with every inbound slot taken.
C8_Witness ==
    /\ last.op = "report_inbound_substream"
    /\ last.peer \in reserved_peers
    /\ last.prev = Opening(Outbound(Yes))
    /\ last.result = "Accept"
    /\ peers[last.peer] = Opening(Inbound(Yes))
    /\ max_in > 0
    /\ num_in = max_in

InboundPanics(state) ==
    \/ state = Opening(Outbound(Yes))
    \/ state.kind = "Canceled" /\ state.direction.way = "Inbound"
    \/ /\ debug_assertions
       /\ \/ state.kind \in {"Connected", "Closing"}
          \/ state.kind = "Opening" /\ state.direction.way = "Inbound"

OpenedStep(peer) == last'.op = "report_substream_opened" /\ last'.peer = peer

\* C11: report_substream_opened moves Opening{dir} to Connected{dir} and returns
\* true, moves Canceled{dir} to Closing{dir} and returns false; dir is the recorded
\* direction whatever direction the transport reports, the gauge grows by one and
\* neither slot counter changes.
C11_OpenedKeepsRecordedDirection ==
    [][\A peer \in PeerId :
           (OpenedStep(peer) /\ Get(peers, peer).kind \in {"Opening", "Canceled"})
               => /\ peers'[peer] =
                         IF peers[peer].kind = "Opening"
                         THEN Connected(peers[peer].direction)
                         ELSE Closing(peers[peer].direction)
                  /\ last'.result =
                         IF peers[peer].kind = "Opening" THEN "true" ELSE "false"
                  /\ connected_peers' = connected_peers + 1
                  /\ num_in' = num_in
                  /\ num_out' = num_out]_vars

\* A dial canceled while opening was reported open by the transport as an inbound
\* substream: it is to be closed, and still holds its outbound slot.
C11_Witness ==
    /\ last.op = "report_substream_opened"
    /\ last.prev = Canceled(Outbound(No))
    /\ last.direction = "Inbound"
    /\ last.result = "false"
    /\ peers[last.peer] = Closing(Outbound(No))
    /\ num_out = 1

\* The step is the ingress call `op` for `peer`.
IngressStep(op, peer) == last'.op = op /\ last'.peer = peer

\* `after` is `before` with the one entry `entry` added.
Scheduled(before, after, entry) ==
    /\ Len(after) = Len(before) + 1
    /\ \E i \in 1..Len(after) :
           /\ after[i] = entry
           /\ before = SubSeq(after, 1, i - 1) \o SubSeq(after, i + 1, Len(after))

\* C12: report_substream_closed for a peer in Connected{dir} or Closing{dir}
\* releases one inbound slot when dir = Inbound(No), one outbound slot when
\* dir = Outbound(No) and none when dir is flagged Yes, whatever the reserved set
\* holds now; the peer becomes Backoff, the gauge drops by one and one back-off
\* carrying DISCONNECT_ADJUSTMENT is scheduled.
C12_ClosedReleasesRecordedSlot ==
    [][\A peer \in PeerId :
           (/\ IngressStep("report_substream_closed", peer)
            /\ Get(peers, peer).kind \in {"Connected", "Closing"})
               => /\ num_in' =
                         IF peers[peer].direction = Inbound(No) THEN num_in - 1
                         ELSE num_in
                  /\ num_out' =
                         IF peers[peer].direction = Outbound(No) THEN num_out - 1
                         ELSE num_out
                  /\ peers'[peer] = Backoff
                  /\ connected_peers' = connected_peers - 1
                  /\ Scheduled(pending_backoffs, pending_backoffs',
                               [peer |-> peer, reputation |-> -256, ready |-> FALSE])
                  /\ DISCONNECT_ADJUSTMENT = -256]_vars

\* A peer admitted on an inbound slot and reserved afterwards was closed: its
\* slot was released although it is a member of the reserved set.
C12_Witness ==
    /\ last.op = "report_substream_closed"
    /\ last.prev = Connected(Inbound(No))
    /\ last.peer \in reserved_peers
    /\ last.result = "unit"
    /\ peers[last.peer] = Backoff
    /\ num_in = 0
    /\ pending_backoffs # <<>>

\* The number of report_peer(peer, reputation) calls among `reports`.
ReportCount(reports, peer, reputation) ==
    Cardinality({i \in 1..Len(reports) : reports[i] = <<peer, reputation>>})

\* The peers `out` names, when it is an OpenSubstream.
Dialed(out) == IF out.cmd = "OpenSubstream" THEN Range(out.peers) ELSE {}

\* C13: report_substream_open_failure for a peer in Opening{dir} or Canceled{dir}
\* releases the slot dir names when dir is flagged No and none when it is flagged
\* Yes, the peer becomes Backoff and one back-off carrying OPEN_FAILURE_ADJUSTMENT
\* is scheduled; the poll_next that finds that back-off expired makes the peer
\* Disconnected (the same call may go on to dial it) and hands the peerstore
\* exactly one report_peer(peer, -1024).
C13_OpenFailureBacksOff ==
    [][/\ \A peer \in PeerId :
              (/\ IngressStep("report_substream_open_failure", peer)
               /\ Get(peers, peer).kind \in {"Opening", "Canceled"})
                  => /\ num_in' =
                            IF peers[peer].direction = Inbound(No) THEN num_in - 1
                            ELSE num_in
                     /\ num_out' =
                            IF peers[peer].direction = Outbound(No) THEN num_out - 1
                            ELSE num_out
                     /\ peers'[peer] = Backoff
                     /\ connected_peers' = connected_peers
                     /\ Scheduled(pending_backoffs, pending_backoffs',
                                  [peer |-> peer, reputation |-> -1024,
                                   ready |-> FALSE])
                     /\ OPEN_FAILURE_ADJUSTMENT = -1024
       /\ \A i \in 1..Len(pending_backoffs) :
              (/\ last'.op = "poll_next"
               /\ pending_backoffs[i].ready
               /\ pending_backoffs[i].reputation = -1024)
                  => LET peer == pending_backoffs[i].peer IN
                     /\ DrainBackoffs(peers, pending_backoffs).peers[peer]
                            = Disconnected
                     /\ IF peer \in Dialed(last'.out)
                        THEN peers'[peer].kind = "Opening"
                        ELSE peers'[peer] = Disconnected
                     /\ ReportCount(last'.reports, peer, -1024) = 1
                     /\ \A j \in 1..Len(pending_backoffs') :
                            pending_backoffs'[j].peer # peer]_vars

\* A failed dial has served its back-off: the peer is Disconnected and the
\* peerstore was handed the adjustment of an open failure.
C13_Witness ==
    /\ last.op = "poll_next"
    /\ \E peer \in DOMAIN peers :
           /\ ReportCount(last.reports, peer, OPEN_FAILURE_ADJUSTMENT) = 1
           /\ peers[peer] = Disconnected

\* report_substream_closed has just run for a peer whose substream had been
\* reported open by the call before it.
OpenedThenClosed ==
    /\ last.op = "report_substream_closed"
    /\ last.pre_open # <<>>
    /\ last.prev.kind \in {"Connected", "Closing"}

\* C14 as claimed: report_substream_opened immediately followed by
\* report_substream_closed leaves num_in and num_out at the values they had just
\* before report_substream_opened, and the peer in Backoff.
C14_OpenCloseRestoresPreOpen ==
    OpenedThenClosed
        => /\ num_in = last.pre_open[1].num_in
           /\ num_out = last.pre_open[1].num_out
           /\ peers[last.peer] = Backoff

\* C14 amended: report_substream_opened immediately followed by
\* report_substream_closed leaves the peer in Backoff and the counters at their
\* values before the slot was charged at admission: the counter the recorded
\* direction names is one below its value just before report_substream_opened
\* when the direction is flagged No, and both counters are at their pre-open
\* values when it is flagged Yes.
C14_OpenCloseReleasesAdmissionSlot ==
    OpenedThenClosed
        => /\ num_in = last.pre_open[1].num_in
                          - (IF last.prev.direction = Inbound(No) THEN 1 ELSE 0)
           /\ num_out = last.pre_open[1].num_out
                          - (IF last.prev.direction = Outbound(No) THEN 1 ELSE 0)
           /\ peers[last.peer] = Backoff

\* An accepted inbound substream opened and closed at once: its slot, charged
\* when it was accepted and held just before the open, is free again.
C14_Witness ==
    /\ OpenedThenClosed
    /\ last.prev = Connected(Inbound(No))
    /\ last.pre_open[1].num_in = 1
    /\ num_in = 0
    /\ peers[last.peer] = Backoff

\* The step is a poll_next that services the command `cmd`.
CommandStep(cmd) == last'.op = "poll_next" /\ last'.action.cmd = cmd

\* The peer table a command is serviced on: poll_next drains the expired back-offs
\* before it takes the command.
Drained == DrainBackoffs(peers, pending_backoffs).peers

\* C15: AddReservedPeers inserts every listed peer that is not reserved yet; of
\* those, a peer without entry or Disconnected becomes Opening{Outbound(Yes)} and
\* is named in the OpenSubstream; a peer in any other state, and a peer that is
\* reserved already, keeps its state and is not named; no counter changes.
C15_AddReservedPeers ==
    [][CommandStep("AddReservedPeers")
           => /\ reserved_peers' = reserved_peers \cup last'.action.peers
              /\ last'.out.cmd = "OpenSubstream"
              /\ \A peer \in PeerId :
                     IF /\ peer \in last'.action.peers
                        /\ peer \notin reserved_peers
                        /\ Get(Drained, peer) \in {NoEntry, Disconnected}
                     THEN /\ peers'[peer] = Opening(Outbound(Yes))
                          /\ peer \in Dialed(last'.out)
                     ELSE /\ Get(peers', peer) = Get(Drained, peer)
                          /\ peer \notin Dialed(last'.out)
              /\ num_in' = num_in
              /\ num_out' = num_out]_vars

\* One command added an unknown peer, which is dialed, and a peer holding an
\* inbound slot, which keeps its state and its slot.
C15_Witness ==
    /\ last.op = "poll_next"
    /\ last.action.cmd = "AddReservedPeers"
    /\ \E p, q \in last.action.peers :
           /\ Get(peers, p) = Opening(Outbound(Yes))
           /\ p \in Dialed(last.out)
           /\ Get(peers, q) = Connected(Inbound(No))
           /\ q \in reserved_peers
           /\ q \notin Dialed(last.out)
    /\ num_in = 1

\* The peers `out` names, when it is a CloseSubstream.
ToldToClose(out) == IF out.cmd = "CloseSubstream" THEN Range(out.peers) ELSE {}

\* C16: RemoveReservedPeers removes every listed peer that is reserved from the
\* reserved set; of those, a Connected{dir} peer becomes Closing{dir} and is named
\* in the CloseSubstream, an Opening{dir} peer becomes Canceled{dir} and is not
\* named; every other peer keeps its state and is not named; the CloseSubstream
\* is yielded even when it names nobody; no counter changes.
C16_RemoveReservedPeers ==
    [][CommandStep("RemoveReservedPeers")
           => /\ reserved_peers' = reserved_peers \ last'.action.peers
              /\ last'.out.cmd = "CloseSubstream"
              /\ \A peer \in PeerId :
                     LET state == Get(Drained, peer)
                         removed == peer \in last'.action.peers \cap reserved_peers
                     IN  IF removed /\ state.kind = "Connected"
                         THEN /\ peers'[peer] = Closing(state.direction)
                              /\ peer \in ToldToClose(last'.out)
                         ELSE IF removed /\ state.kind = "Opening"
                         THEN /\ peers'[peer] = Canceled(state.direction)
                              /\ peer \notin ToldToClose(last'.out)
                         ELSE /\ Get(peers', peer) = state
                              /\ peer \notin ToldToClose(last'.out)
              /\ num_in' = num_in
              /\ num_out' = num_out]_vars

\* Every reserved peer was removed while its dial was in flight: the dials are
\* canceled and the CloseSubstream names nobody.
C16_Witness ==
    /\ last.op = "poll_next"
    /\ last.action.cmd = "RemoveReservedPeers"
    /\ last.action.peers = PeerId
    /\ last.out = CloseSubstream(<<>>)
    /\ reserved_peers = {}
    /\ \A peer \in PeerId : Get(peers, peer) = Canceled(Outbound(Yes))

\* C17: a peer in Closing{dir} stays in Closing{dir} through every command and
\* allocator tick and is named in no OpenSubstream and no CloseSubstream yielded
\* meanwhile; it leaves Closing only through report_substream_closed.
C17_ClosingIsLeftAlone ==
    [][\A peer \in PeerId :
           Get(peers, peer).kind = "Closing"
               => \/ IngressStep("report_substream_closed", peer)
                  \/ /\ peers'[peer] = peers[peer]
                     /\ last'.op = "poll_next"
                            => peer \notin Dialed(last'.out) \cup ToldToClose(last'.out)
    ]_vars

\* C18 as claimed: on a fresh instance with reserved set R, once AddReservedPeers(S)
\* and then RemoveReservedPeers(S) have been serviced the reserved set is R again.
C18_AddRemoveRestoresReserved ==
    \A R \in SUBSET PeerId : \A S \in SUBSET PeerId :
        (/\ reserved_peers = R
         /\ cmd_rx = <<AddReservedPeers(S), RemoveReservedPeers(S)>>)
            => [](cmd_rx = <<>> => reserved_peers = R)

\* C18 amended: on a fresh instance with reserved set R, once AddReservedPeers(S)
\* and then RemoveReservedPeers(S) have been serviced the reserved set is R \ S:
\* the peers of S that were reserved before are removed too, and the set is R
\* again exactly when S and R are disjoint.
C18_AddRemoveLeavesDifference ==
    \A R \in SUBSET PeerId : \A S \in SUBSET PeerId :
        (/\ reserved_peers = R
         /\ cmd_rx = <<AddReservedPeers(S), RemoveReservedPeers(S)>>)
            => /\ [](cmd_rx = <<>> => reserved_peers = R \ S)
               /\ <>(cmd_rx = <<>>)

\* Both commands were serviced for an S holding a peer that was reserved from the
\* start (skipped by the add, still Disconnected) and one that was not (dialed by
\* the add, canceled by the remove): neither is reserved now.
C18_Witness ==
    /\ cmd_rx = <<>>
    /\ last.op = "poll_next"
    /\ last.action.cmd = "RemoveReservedPeers"
    /\ \E p, q \in last.action.peers :
           /\ Get(peers, p) = Disconnected
           /\ Get(peers, q) = Canceled(Outbound(Yes))
    /\ reserved_peers \cap last.action.peers = {}

\* C19: SetReservedOnly(true) sets the mode; every non-reserved Connected{dir}
\* peer becomes Closing{dir} and is named in the CloseSubstream, every
\* non-reserved Opening{dir} peer becomes Canceled{dir}; every other peer, and
\* every member of the reserved set, keeps its state; no counter changes.
C19_SetReservedOnlySparesReserved ==
    [][(CommandStep("SetReservedOnly") /\ last'.action.reserved_only)
           => /\ reserved_only'
              /\ reserved_peers' = reserved_peers
              /\ \A peer \in PeerId :
                     LET state == Get(Drained, peer) IN
                     IF peer \notin reserved_peers /\ state.kind = "Connected"
                     THEN /\ peers'[peer] = Closing(state.direction)
                          /\ peer \in ToldToClose(last'.out)
                     ELSE IF peer \notin reserved_peers /\ state.kind = "Opening"
                     THEN /\ peers'[peer] = Canceled(state.direction)
                          /\ peer \notin ToldToClose(last'.out)
                     ELSE /\ Get(peers', peer) = state
                          /\ peer \notin ToldToClose(last'.out)
              /\ num_in' = num_in
              /\ num_out' = num_out]_vars

Disconnecting(state) ==
    IF state.kind = "Connected" THEN Closing(state.direction)
    ELSE IF state.kind = "Opening" THEN Canceled(state.direction)
    ELSE state

\* The allocation branch of the step dialed `peer`, which the command had left
\* in `state`.
DialedByAllocator(peer, state) ==
    /\ last'.allocated
    /\ peer \in Dialed(last'.out)
    /\ state \in {NoEntry, Disconnected}

\* C22: DisconnectPeer(peer) moves Connected{dir} to Closing{dir} and yields
\* CloseSubstream naming the peer alone; it moves Opening{dir} to Canceled{dir}
\* and yields nothing; it leaves Backoff, Closing, Canceled and Disconnected as
\* they are and yields nothing; for a peer without entry nothing changes and no
\* entry is created; no other peer's state, neither counter nor the reserved set
\* changes.  Where the command yields nothing poll_next goes on to the allocation
\* branch when its Delay has elapsed, and that branch alone may dial.
C22_DisconnectPeer ==
    [][CommandStep("DisconnectPeer")
           => \E drained \in {Drained} :
              \E peer \in {last'.action.peer} :
              \E state \in {Get(drained, peer)} :
                  /\ IF state.kind = "Connected"
                     THEN /\ last'.out = CloseSubstream(<<peer>>)
                          /\ ~last'.allocated
                     ELSE /\ last'.out.cmd # "CloseSubstream"
                          /\ last'.allocated = next_slot_allocation
                  /\ \/ Get(peers', peer) = Disconnecting(state)
                     \/ DialedByAllocator(peer, state)
                  /\ \A other \in PeerId \ {peer} :
                         \/ Get(peers', other) = Get(drained, other)
                         \/ DialedByAllocator(other, Get(drained, other))
                  /\ ~last'.allocated
                         => /\ last'.out.cmd # "OpenSubstream"
                            /\ DOMAIN peers' = DOMAIN drained
                            /\ num_out' = num_out
                  /\ num_in' = num_in
                  /\ reserved_peers' = reserved_peers]_vars

\* A candidate being dialed was disconnected: its dial is canceled, nothing is
\* yielded and it still holds its outbound slot.
C22_Witness ==
    /\ last.op = "poll_next"
    /\ last.action.cmd = "DisconnectPeer"
    /\ ~last.allocated
    /\ last.out = NoCommand
    /\ Get(peers, last.action.peer) = Canceled(Outbound(No))
    /\ num_out = 1
    /\ \E other \in PeerId : other \notin DOMAIN peers

AllocatorTick == last'.op = "poll_next" /\ last'.allocated

\* The reserved peers an allocator tick is to dial: those with a Disconnected
\* entry when the branch starts that the peerstore does not report banned.
ReservedDials(table) ==
    {peer \in DOMAIN table :
        /\ peer \in reserved_peers'
        /\ table[peer] = Disconnected
        /\ peer \notin last'.banned}

\* C24: an allocator tick that finds num_out = max_out does not ask the peerstore
\* for candidates, puts no peer in Opening{Outbound(No)} and leaves num_out as it
\* is; it still dials the reserved peers that are Disconnected and not banned,
\* and only those.
C24_FullOutboundAsksNoCandidates ==
    [][(AllocatorTick /\ num_out = max_out)
           => \E drained \in {Drained} :
                  /\ last'.asked = -1
                  /\ num_out' = num_out
                  /\ \A peer \in PeerId :
                         Get(peers', peer) = Opening(Outbound(No))
                             => Get(drained, peer) = Opening(Outbound(No))
                  /\ Dialed(last'.out) = ReservedDials(drained)
                  /\ \A peer \in ReservedDials(drained) :
                         peers'[peer] = Opening(Outbound(Yes))]_vars

\* With reserved-only mode off and the one outbound slot taken, a tick dialed a
\* reserved peer without asking the peerstore for candidates.
C24_Witness ==
    /\ last.op = "poll_next"
    /\ last.allocated
    /\ last.asked = -1
    /\ ~reserved_only
    /\ max_out > 0
    /\ num_out = max_out
    /\ \E peer \in reserved_peers :
           /\ last.out = OpenSubstream(<<peer>>)
           /\ Get(peers, peer) = Opening(Outbound(Yes))

\* C25: an allocator tick that runs in reserved-only mode does not ask the
\* peerstore for candidates, puts no peer in Opening{Outbound(No)} and does not
\* change num_out, free outbound slots or not; the peers it dials are exactly the
\* members of the reserved set that are Disconnected and not banned.
C25_ReservedOnlyTickDialsReservedOnly ==
    [][(AllocatorTick /\ reserved_only')
           => \E drained \in {Drained} :
                  /\ reserved_only
                  /\ last'.asked = -1
                  /\ num_out' = num_out
                  /\ \A peer \in PeerId :
                         Get(peers', peer) = Opening(Outbound(No))
                             => Get(drained, peer) = Opening(Outbound(No))
                  /\ Dialed(last'.out) = ReservedDials(drained)
                  /\ Dialed(last'.out) \subseteq reserved_peers'
                  /\ \A peer \in Dialed(last'.out) :
                         /\ drained[peer] = Disconnected
                         /\ peers'[peer] = Opening(Outbound(Yes))]_vars

\* In reserved-only mode, with a free outbound slot and an idle peer outside the
\* reserved set, a tick dialed the reserved peer alone and asked for no candidate.
C25_Witness ==
    /\ last.op = "poll_next"
    /\ last.allocated
    /\ last.asked = -1
    /\ reserved_only
    /\ num_out < max_out
    /\ \E peer \in reserved_peers :
           /\ last.out = OpenSubstream(<<peer>>)
           /\ Get(peers, peer) = Opening(Outbound(Yes))
    /\ \E other \in PeerId \ reserved_peers : Idle(other)

\* The back-off of `peer` has expired: the next poll_next drains it.
BackoffExpired(peer) ==
    /\ Get(peers, peer) = Backoff
    /\ \E i \in 1..Len(pending_backoffs) :
           pending_backoffs[i].peer = peer /\ pending_backoffs[i].ready

\* C26 as claimed: every peer named in an OpenSubstream was absent or
\* Disconnected immediately before the poll_next that yields it and is in
\* Opening{Outbound(_)} immediately after it.
C26_DialedWereIdleBeforeStep ==
    [][last'.op = "poll_next"
           => \A peer \in Dialed(last'.out) :
                  /\ Get(peers, peer) \in {NoEntry, Disconnected}
                  /\ peers'[peer] \in {Opening(Outbound(r)) : r \in Reserved}]_vars

\* C26 amended: every peer named in an OpenSubstream, by AddReservedPeers or by
\* the allocator, is absent or Disconnected when it is chosen and is in
\* Opening{Outbound(_)} after the step; immediately before the step it was absent
\* or Disconnected, or in Backoff with its back-off expired, which the same
\* poll_next drains to Disconnected first.  Peers in Opening, Connected, Canceled,
\* Closing, or in Backoff with the back-off still running, are never named.
C26_DialedWereIdleWhenChosen ==
    [][last'.op = "poll_next"
           => \E drained \in {Drained} :
              \A peer \in Dialed(last'.out) :
                  /\ Get(drained, peer) \in {NoEntry, Disconnected}
                  /\ Get(peers, peer) \in {NoEntry, Disconnected}
                         \/ BackoffExpired(peer)
                  /\ peers'[peer] \in {Opening(Outbound(r)) : r \in Reserved}]_vars

\* A poll_next found the back-off of a peer expired, reported its reputation and
\* dialed it as a candidate in the same call.
C26_Witness ==
    /\ last.op = "poll_next"
    /\ \E peer \in Dialed(last.out) :
           /\ ReportCount(last.reports, peer, DISCONNECT_ADJUSTMENT) = 1
           /\ Get(peers, peer) = Opening(Outbound(No))

\* The back-offs found expired by the next poll_next.
Expired == {i \in 1..Len(pending_backoffs) : pending_backoffs[i].ready}

\* C27: a poll_next hands the peerstore one report_peer per expired back-off,
\* with the reputation the back-off carries, and sets its peer to Disconnected
\* before it services a command or runs the allocator: no expired back-off is left
\* pending, the peer ends the step Disconnected or dialed, a command or a tick of
\* the same step that dials idle peers dials it, and every peer named in the
\* OpenSubstream whose back-off had expired has had its reputation reported.
C27_ExpiredBackoffsDrainedFirst ==
    [][last'.op = "poll_next"
           => /\ Len(last'.reports) = Cardinality(Expired)
              /\ Len(pending_backoffs') = Len(pending_backoffs) - Cardinality(Expired)
              /\ \A j \in 1..Len(pending_backoffs') : ~pending_backoffs'[j].ready
              /\ \A i \in Expired :
                     \E peer \in {pending_backoffs[i].peer} :
                         /\ ReportCount(last'.reports, peer,
                                        pending_backoffs[i].reputation) >= 1
                         /\ IF peer \in Dialed(last'.out)
                            THEN peers'[peer].kind = "Opening"
                            ELSE peers'[peer] = Disconnected
                         /\ (/\ last'.action.cmd = "AddReservedPeers"
                             /\ peer \in last'.action.peers \ reserved_peers)
                                => peer \in Dialed(last'.out)
                         /\ (/\ last'.allocated
                             /\ peer \in reserved_peers'
                             /\ peer \notin last'.banned)
                                => peer \in Dialed(last'.out)
              /\ \A peer \in Dialed(last'.out) :
                     Get(peers, peer) = Backoff
                         => \E r \in {DISCONNECT_ADJUSTMENT, OPEN_FAILURE_ADJUSTMENT} :
                                ReportCount(last'.reports, peer, r) = 1]_vars

\* One poll_next found the back-offs of both peers expired, reported both
\* reputations and then serviced an AddReservedPeers that dialed one of them.
C27_Witness ==
    /\ last.op = "poll_next"
    /\ Len(last.reports) = 2
    /\ last.action.cmd = "AddReservedPeers"
    /\ \E peer, other \in PeerId :
           /\ peer # other
           /\ ReportCount(last.reports, peer, OPEN_FAILURE_ADJUSTMENT) = 1
           /\ ReportCount(last.reports, other, DISCONNECT_ADJUSTMENT) = 1
           /\ last.out = OpenSubstream(<<peer>>)
           /\ Get(peers, peer) = Opening(Outbound(Yes))
           /\ Get(peers, other) = Disconnected

\* No peer occurs twice in `vec`.
DuplicateFree(vec) == \A i, j \in 1..Len(vec) : i # j => vec[i] # vec[j]

\* C28: no peer occurs twice in the batch of an OpenSubstream or CloseSubstream
\* that poll_next yields, the allocator's batch of reserved dials followed by
\* peerstore candidates included.
C28_BatchesDuplicateFree ==
    (last.op = "poll_next" /\ last.out.cmd \in {"OpenSubstream", "CloseSubstream"})
        => DuplicateFree(last.out.peers)

\* An allocator tick yielded a batch of two: a reserved dial followed by a
\* candidate of the peerstore.
C28_Witness ==
    /\ last.op = "poll_next"
    /\ last.allocated
    /\ last.out.cmd = "OpenSubstream"
    /\ Len(last.out.peers) = 2
    /\ Get(peers, last.out.peers[1]) = Opening(Outbound(Yes))
    /\ Get(peers, last.out.peers[2]) = Opening(Outbound(No))

\* C29: one poll_next drains every expired back-off, then takes at most one
\* command, the head of the queue, then runs the allocation branch if its Delay
\* has elapsed; it yields at most one notification command: when the command
\* yields an output the branch is not run and its Delay stays elapsed, so a later
\* poll_next runs it; otherwise the branch runs exactly when the Delay has
\* elapsed, on the state the command left, and arms the Delay anew.
C29_PollStepOrder ==
    [][last'.op = "poll_next"
           => /\ Len(last'.reports) = Cardinality(Expired)
              /\ \A j \in 1..Len(pending_backoffs') : ~pending_backoffs'[j].ready
              /\ IF cmd_rx = <<>>
                 THEN last'.action = NoCommand /\ cmd_rx' = <<>>
                 ELSE last'.action = Head(cmd_rx) /\ cmd_rx' = Tail(cmd_rx)
              /\ IF last'.allocated
                 THEN /\ next_slot_allocation
                      /\ ~next_slot_allocation'
                      /\ last'.out.cmd \in {"None", "OpenSubstream"}
                 ELSE /\ next_slot_allocation' = next_slot_allocation
                      /\ next_slot_allocation => last'.out.cmd = "CloseSubstream"
                      /\ last'.out # NoCommand => cmd_rx # <<>>
              /\ \A peer \in Dialed(last'.out) : peers'[peer].kind = "Opening"
              /\ \A peer \in PeerId :
                     last'.action = DisconnectPeer(peer)
                         => /\ Get(peers', peer) # Backoff \/ ~BackoffExpired(peer)
                            /\ Get(peers', peer).kind = "Canceled"
                                   => Get(peers, peer).kind \in {"Opening", "Canceled"}
                            /\ Get(peers, peer).kind = "Connected"
                                   => /\ ~last'.allocated
                                      /\ last'.out = CloseSubstream(<<peer>>)]_vars

\* A poll_next drained a back-off and serviced the first of two queued commands,
\* which yielded a CloseSubstream: the allocation branch did not run, its Delay
\* is still elapsed and the second command is still queued.
C29_Witness ==
    /\ last.op = "poll_next"
    /\ Len(last.reports) = 1
    /\ last.out.cmd = "CloseSubstream"
    /\ ~last.allocated
    /\ next_slot_allocation
    /\ Len(cmd_rx) = 1

\* The on-entry states of report_inbound_substream outside its decision table:
\* Connected, Closing, Opening{Inbound(_)}, Canceled{Inbound(_)}, and
\* Opening{Outbound(f)} with f disagreeing with the peer's reserved membership.
NotInDecisionTable(state, reserved_peer) ==
    \/ state.kind \in {"Connected", "Closing"}
    \/ state.kind \in {"Opening", "Canceled"} /\ state.direction.way = "Inbound"
    \/ /\ state.kind = "Opening"
       /\ state.direction.way = "Outbound"
       /\ state.direction.reserved # ReservedFrom(reserved_peer)

\* C30: report_inbound_substream for a peer in an on-entry state outside the
\* decision table returns Reject and changes neither the peer's state nor a
\* counter.
C30_OtherStatesRejected ==
    [][\A peer \in PeerId :
           (/\ InboundStep(peer)
            /\ NotInDecisionTable(Get(peers, peer), peer \in reserved_peers))
               => /\ last'.result = "Reject"
                  /\ Get(peers', peer) = Get(peers, peer)
                  /\ num_in' = num_in
                  /\ num_out' = num_out]_vars

\* C31: report_substream_rejected releases the matching slot of a peer in
\* Opening{Inbound(No)} or Opening{Outbound(No)} and makes it Disconnected; a peer
\* in Opening flagged Yes becomes Disconnected with no counter change; for a peer
\* without entry nothing changes and no entry is created; in any other state the
\* state and the counters are left as they are.  No back-off is scheduled in any
\* case, so the allocator tick that follows dials the peer again when it is
\* reserved and not banned.
C31_Rejected ==
    [][/\ \A peer \in PeerId :
              IngressStep("report_substream_rejected", peer)
                  => \E state \in {Get(peers, peer)} :
                         /\ IF state.kind = "Opening"
                            THEN /\ peers'[peer] = Disconnected
                                 /\ num_in' = IF state.direction = Inbound(No)
                                              THEN num_in - 1 ELSE num_in
                                 /\ num_out' = IF state.direction = Outbound(No)
                                               THEN num_out - 1 ELSE num_out
                            ELSE /\ Get(peers', peer) = state
                                 /\ num_in' = num_in
                                 /\ num_out' = num_out
                         /\ \A other \in PeerId \ {peer} :
                                Get(peers', other) = Get(peers, other)
                         /\ pending_backoffs' = pending_backoffs
                         /\ connected_peers' = connected_peers
       /\ (/\ last.op = "report_substream_rejected"
           /\ last.prev.kind = "Opening"
           /\ AllocatorTick
           /\ last.peer \in reserved_peers'
           /\ last.peer \notin last'.banned)
              => /\ last.peer \in Dialed(last'.out)
                 /\ peers'[last.peer] = Opening(Outbound(Yes))]_vars

\* The protocol rejected a reserved peer that was being dialed: the peer is
\* Disconnected, still reserved, and no back-off stands in the way of the next
\* tick.
C31_Witness ==
    /\ last.op = "report_substream_rejected"
    /\ last.prev = Opening(Outbound(Yes))
    /\ last.result = "unit"
    /\ last.peer \in reserved_peers
    /\ peers[last.peer] = Disconnected
    /\ pending_backoffs = <<>>
    /\ num_out = 1

\* C32: a poll_next that finds a back-off expired hands its reputation to the
\* peerstore whatever the peer's state is; it sets the peer to Disconnected only
\* if the peer is still in Backoff, and a peer in any other state keeps that state
\* (the allocation branch of the same call may dial it when it is Disconnected).
C32_ExpirySparesOtherStates ==
    [][(last'.op = "poll_next" /\ last'.action = NoCommand)
           => \A i \in Expired :
                  \E peer \in {pending_backoffs[i].peer} :
                  \E state \in {Get(peers, peer)} :
                      /\ ReportCount(last'.reports, peer,
                                     pending_backoffs[i].reputation) >= 1
                      /\ \/ DialedByAllocator(peer, Disconnected)
                         \/ Get(peers', peer) =
                                IF state = Backoff THEN Disconnected ELSE state]_vars

BackoffsOf(peer) == {i \in 1..Len(pending_backoffs) : pending_backoffs[i].peer = peer}

\* C34: a peer in Backoff has one back-off pending and any other peer none; a
\* poll_next makes one report_peer call per expired back-off and leaves the others
\* pending; and while the driving task is alive a peer in Backoff eventually has
\* its reputation reported by a poll_next that leaves it Disconnected, or dialed
\* by the same call once it is Disconnected.
C34_BackoffEndsWithOneReport ==
    /\ [](\A peer \in PeerId :
             Cardinality(BackoffsOf(peer)) = IF Get(peers, peer) = Backoff THEN 1 ELSE 0)
    /\ [][last'.op = "poll_next"
              => /\ Len(last'.reports) = Cardinality(Expired)
                 /\ Len(pending_backoffs') = Len(pending_backoffs) - Cardinality(Expired)
                 /\ \A i \in Expired :
                        ReportCount(last'.reports, pending_backoffs[i].peer,
                                    pending_backoffs[i].reputation) = 1]_vars
    /\ \A peer \in PeerId :
           (Get(peers, peer) = Backoff)
               ~> \/ panicked
                  \/ /\ last.op = "poll_next"
                     /\ \E reputation \in {DISCONNECT_ADJUSTMENT, OPEN_FAILURE_ADJUSTMENT} :
                            ReportCount(last.reports, peer, reputation) = 1
                     /\ \/ Get(peers, peer) = Disconnected
                        \/ /\ peer \in Dialed(last.out)
                           /\ Get(peers, peer).kind = "Opening"

\* A poll_next reported the reputation of a backed-off peer and left it
\* Disconnected while the back-off of another peer is still running.
C34_Witness ==
    /\ last.op = "poll_next"
    /\ \E peer \in PeerId :
           /\ ReportCount(last.reports, peer, DISCONNECT_ADJUSTMENT) = 1
           /\ Get(peers, peer) = Disconnected
           /\ BackoffsOf(peer) = {}
    /\ \E other \in PeerId :
           /\ Get(peers, other) = Backoff
           /\ \E i \in BackoffsOf(other) : ~pending_backoffs[i].ready

\* C35: cmd_rx is a queue.  A deposit appends its command and changes nothing
\* else; a poll_next services the command at the head, and that one alone, and
\* leaves the others queued in their order, whether or not it yields an item; no
\* other step touches cmd_rx; and while the driving task keeps polling, commands
\* are serviced again and again unless cmd_rx stays empty from some point on, so
\* that a command with n others ahead of it is serviced by the n+1st of these.
C35_CommandsServicedInOrder ==
    /\ [][IF last'.op = "poll_next"
          THEN IF cmd_rx = <<>>
               THEN last'.action = NoCommand /\ cmd_rx' = <<>>
               ELSE last'.action = Head(cmd_rx) /\ cmd_rx' = Tail(cmd_rx)
          ELSE IF last'.op = "send_command"
          THEN /\ Len(cmd_rx') = Len(cmd_rx) + 1
               /\ SubSeq(cmd_rx', 1, Len(cmd_rx)) = cmd_rx
               /\ cmd_rx'[Len(cmd_rx')] \in PeersetCommand
               /\ UNCHANGED <<peers, reserved_peers, reserved_only, num_in, num_out>>
          ELSE cmd_rx' = cmd_rx]_vars
    /\ \/ <>[](cmd_rx = <<>>)
       \/ []<><<last'.op = "poll_next" /\ cmd_rx' = Tail(cmd_rx)>>_cmd_rx

\* A poll_next serviced a command that yields nothing and returned Poll::Pending
\* with another command still queued.
C35_Witness ==
    /\ last.op = "poll_next"
    /\ last.action.cmd = "DisconnectPeer"
    /\ last.out = NoCommand
    /\ ~last.allocated
    /\ cmd_rx # <<>>
    /\ Head(cmd_rx).cmd = "AddReservedPeers"

\* C36: a peer in Opening{Outbound(f)} has f = Yes exactly when it is in the
\* reserved set, and no report_inbound_substream has panicked on a peer it found
\* in Opening{Outbound(_)}.
C36_OutboundFlagMatchesReserved ==
    /\ \A peer \in DOMAIN peers :
           \A f \in Reserved :
               peers[peer] = Opening(Outbound(f))
                   => (f = Yes <=> peer \in reserved_peers)
    /\ ~(/\ last.op = "report_inbound_substream"
         /\ last.result = "panic"
         /\ last.prev \in {Opening(Outbound(f)) : f \in Reserved})

\* C37: whenever a step moves a peer into Closing, either the step is a poll_next
\* that yields a CloseSubstream naming the peer, or it is the
\* report_substream_opened for that peer, returning false.
C37_ClosingWasToldToClose ==
    [][\A peer \in PeerId :
           (Get(peers, peer).kind # "Closing" /\ Get(peers', peer).kind = "Closing")
               => \/ last'.op = "poll_next" /\ peer \in ToldToClose(last'.out)
                  \/ /\ last'.op = "report_substream_opened"
                     /\ last'.peer = peer
                     /\ last'.result = "false"]_vars

\* The peers with an open substream: those in Connected or Closing.
Open(map) == {peer \in DOMAIN map : map[peer].kind \in {"Connected", "Closing"}}

\* C38: the connected-peer gauge, zero at construction, is in every state the
\* number of peers in Connected or Closing, when the transport reports opened for
\* Opening and Canceled peers only and closed for Connected and Closing ones only.
C38_GaugeCountsOpenSubstreams == connected_peers = Cardinality(Open(peers))

\* The close of one substream was reported while another, being closed on
\* request, is still open: the gauge went from two to one.
C38_Witness ==
    /\ last.op = "report_substream_closed"
    /\ last.prev.kind = "Connected"
    /\ Get(peers, last.peer) = Backoff
    /\ connected_peers = 1
    /\ \E peer \in PeerId : Get(peers, peer).kind = "Closing"

\* C39: a poll_next that services a command leaves num_in as it is, and num_out
\* too but for the candidates the allocation branch of the same call dials, each
\* charged one outbound slot; servicing GetReservedPeers moreover leaves the
\* reserved set, the mode, the gauge and the table the back-off drain produced as
\* they are, again but for the allocator's dials, and the reply is the reserved set.
C39_CommandsKeepCounters ==
    [][(last'.op = "poll_next" /\ last'.action # NoCommand)
           => /\ num_in' = num_in
              /\ num_out' = num_out +
                     Cardinality({peer \in Dialed(last'.out) :
                                     /\ last'.allocated
                                     /\ peers'[peer] = Opening(Outbound(No))})
              /\ last'.action = GetReservedPeers
                     => /\ last'.reply = reserved_peers
                        /\ UNCHANGED <<reserved_peers, reserved_only, connected_peers,
                                       max_in, max_out>>
                        /\ \E drained \in {Drained} :
                           \A peer \in PeerId :
                               \/ Get(peers', peer) = Get(drained, peer)
                               \/ DialedByAllocator(peer, Get(drained, peer))]_vars

\* DisconnectPeer canceled the dial of a candidate: the peer is Canceled and its
\* outbound slot is still charged.
C39_Witness ==
    /\ last.op = "poll_next"
    /\ last.action.cmd = "DisconnectPeer"
    /\ Get(peers, last.action.peer) = Canceled(Outbound(No))
    /\ num_out = 1

\* The ingress calls that release slots.
Releasing ==
    {"report_substream_closed", "report_substream_open_failure",
     "report_substream_rejected", "report_inbound_substream"}

\* C40: no call of report_substream_closed, report_substream_open_failure,
\* report_substream_rejected or report_inbound_substream logs the underflow
\* diagnostic of adjust_or_warn!; a counter such a call lowers was at least 1, and
\* neither counter is negative afterwards.
C40_ReleaseNeverUnderflows ==
    [][last'.op \in Releasing
           => /\ last'.diag # "underflow"
              /\ num_in' < num_in => num_in >= 1
              /\ num_out' < num_out => num_out >= 1
              /\ num_in' >= 0
              /\ num_out' >= 0]_vars

\* An inbound substream of a peer that was being dialed as a candidate was
\* accepted: the only outbound slot charged was released, an inbound one taken.
C40_Witness ==
    /\ last.op = "report_inbound_substream"
    /\ last.prev = Opening(Outbound(No))
    /\ last.result = "Accept"
    /\ last.diag = "none"
    /\ num_out = 0
    /\ num_in = 1

====
